---- MODULE Spec2Model ----
(***************************************************************************)
(* A model of holopy.scattering.theory.scatteringtheory.ScatteringTheory   *)
(* (the computation core, the coordinate transformer, the detector-view    *)
(* classifier and the result packers) and of the default-theory dispatch   *)
(* exercised by holopy/scattering/tests/test_calculations.py.              *)
(*                                                                         *)
(* Conventions of the model                                                *)
(*  - Every operation returns a record [ok, err, val, log]: ok = FALSE is  *)
(*    a raised exception named by err; log is the sequence of calls the    *)
(*    operation made, in program order, up to the return or the raise.     *)
(*  - Lengths are integers.  Wavelengths are carried as reduced            *)
(*    wavelengths (lambda / 2 pi), so that 2 pi / (lambda / n) is the      *)
(*    integer n / lambda_bar; the input sets keep that division exact.     *)
(*  - A square root is the symbolic value [sqrt |-> n]; an angle computed  *)
(*    by the Cartesian-to-spherical conversion is the symbolic value       *)
(*    [arctan2 |-> <<a, b>>].                                              *)
(*  - The numerical kernels are opaque: their values are symbolic terms    *)
(*    recording the arguments they were called with.  A field element is   *)
(*    a bag of such terms and field addition is bag union, so that a sum   *)
(*    records every contribution with its multiplicity.                    *)
(***************************************************************************)
EXTENDS Integers, Sequences, FiniteSets, Bags, TLC

VARIABLES pc, op, args, ret, log, field, illum_i

vars == <<pc, op, args, ret, log, field, illum_i>>

(***************************************************************************)
(* Bounds of the model.                                                    *)
(***************************************************************************)
MaxPoints == 2
MaxComponents == 2
MaxLabels == 2
MaxDims == 2

(***************************************************************************)
(* Generic helpers.                                                        *)
(***************************************************************************)
None == <<>>

Ok(v, l) == [ok |-> TRUE, err |-> "", val |-> v, log |-> l]

Raise(e, v, l) == [ok |-> FALSE, err |-> e, val |-> v, log |-> l]

NoRet == [ok |-> FALSE, err |-> "", val |-> <<>>]

SeqsUpTo(S, lo, hi) == UNION {[1..n -> S] : n \in lo..hi}

Range(s) == {s[i] : i \in 1..Len(s)}

IsInjective(s) == \A i, j \in 1..Len(s) : s[i] = s[j] => i = j

IndexOf(s, e) == CHOOSE i \in 1..Len(s) : s[i] = e

(***************************************************************************)
(* Labelled arrays (xarray.DataArray) as far as the code reads them:       *)
(* dims, the coordinate columns, and the metadata attributes.              *)
(***************************************************************************)
hasattr(detector, name) == name \in DOMAIN detector.coords

NumPoints(view) == Len(view.index)

\* holopy.core.metadata.flat: a view that already has a flat or point
\* dimension is returned as it is; a grid over (x, y) is stacked, x major,
\* into one "flat" dimension whose per-point columns are parallel arrays.
flat(a) ==
    IF "flat" \in Range(a.dims) \/ "point" \in Range(a.dims) THEN a
    ELSE LET nx == Len(a.coords.x)
             ny == Len(a.coords.y)
             xi(p) == ((p - 1) \div ny) + 1
             yj(p) == ((p - 1) % ny) + 1
         IN [a EXCEPT
               !.dims = <<"flat">>,
               !.index = [p \in 1..(nx * ny) |->
                            <<a.coords.x[xi(p)], a.coords.y[yj(p)]>>],
               !.coords = [c \in DOMAIN a.coords |->
                   [p \in 1..(nx * ny) |->
                       IF c = "x" THEN a.coords.x[xi(p)]
                       ELSE IF c = "y" THEN a.coords.y[yj(p)]
                       ELSE a.coords[c][1]]]]

\* A classifier that looks for the point dimension first
_is_detector_view_point_or_flat_point_first(detector_view) ==
    LET detector_dims == IF detector_view.isDataArray
                         THEN detector_view.dims
                         ELSE detector_view.tuple
    IN IF "point" \in Range(detector_dims) THEN Ok("point", <<>>)
       ELSE IF "flat" \in Range(detector_dims) THEN Ok("flat", <<>>)
       ELSE Raise("ValueError", "Call flat first.", <<>>)

\* ScatteringTheory._is_detector_view_point_or_flat
_is_detector_view_point_or_flat(detector_view) ==
    LET detector_dims == IF detector_view.isDataArray
                         THEN detector_view.dims
                         ELSE detector_view.tuple
    IN IF "flat" \in Range(detector_dims) THEN Ok("flat", <<>>)
       ELSE IF "point" \in Range(detector_dims) THEN Ok("point", <<>>)
       ELSE Raise("ValueError", "Call flat first.", <<>>)

(***************************************************************************)
(* The coordinate transformer.                                             *)
(***************************************************************************)
desired_coordinate_system == "spherical"

Inf == [inf |-> TRUE]

Sqrt(n) == [sqrt |-> n]

\* holopy.core.math: Cartesian to spherical by the standard radius,
\* inclination and azimuth formulas, point by point.
to_spherical(xyz) ==
    LET x == xyz[1]
        y == xyz[2]
        z == xyz[3]
        N == Len(x)
    IN << [i \in 1..N |-> Sqrt(x[i] * x[i] + y[i] * y[i] + z[i] * z[i])],
          [i \in 1..N |-> [arctan2 |-> <<Sqrt(x[i] * x[i] + y[i] * y[i]), z[i]>>]],
          [i \in 1..N |-> [arctan2 |-> <<y[i], x[i]>>]] >>

\* holopy.core.math.find_transformation_function, applied to the values:
\* the identity when the original system is the desired one.
find_transformation_function(original, desired, values) ==
    IF original = desired THEN values
    ELSE to_spherical(values)

\* The spherical branch's original_coordinate_values.
spherical_coordinate_values(detector, wavevec) ==
    LET N == Len(detector.coords.theta)
    IN << IF hasattr(detector, "r")
          THEN [i \in 1..N |-> detector.coords.r[i] * wavevec]
          ELSE [i \in 1..N |-> Inf],
          detector.coords.theta,
          detector.coords.phi >>

\* Cartesian offsets with z taken like x and y, not inverted
cartesian_coordinate_values_z_not_inverted(f, origin, wavevec) ==
    LET N == NumPoints(f)
    IN << [i \in 1..N |-> wavevec * (f.coords.x[i] - origin[1])],
          [i \in 1..N |-> wavevec * (f.coords.y[i] - origin[2])],
          [i \in 1..N |-> wavevec * (f.coords.z[i] - origin[3])] >>

\* The Cartesian branch's original_coordinate_values, f the flattened
\* detector; z is defined opposite light propagation, so it is inverted.
cartesian_coordinate_values(f, origin, wavevec) ==
    LET N == NumPoints(f)
    IN << [i \in 1..N |-> wavevec * (f.coords.x[i] - origin[1])],
          [i \in 1..N |-> wavevec * (f.coords.y[i] - origin[2])],
          [i \in 1..N |-> wavevec * (origin[3] - f.coords.z[i])] >>

\* Which branch the transformer takes.
original_coordinate_system(detector) ==
    IF hasattr(detector, "theta") /\ hasattr(detector, "phi")
    THEN "spherical"
    ELSE "cartesian"

\* ScatteringTheory._transform_to_desired_coordinates.  Reading a missing
\* x, y or z column raises AttributeError and indexing an origin of None
\* raises TypeError, whichever the evaluation meets first: f.x, origin[0],
\* f.y, f.z.
_transform_to_desired_coordinates(detector, origin, wavevec) ==
    IF original_coordinate_system(detector) = "spherical"
    THEN LET original_coordinate_values ==
                 spherical_coordinate_values(detector, wavevec)
         IN Ok(find_transformation_function(
                   "spherical", desired_coordinate_system,
                   original_coordinate_values),
               << [ev |-> "find_transformation_function",
                   original |-> "spherical",
                   values |-> original_coordinate_values] >>)
    ELSE IF ~ hasattr(detector, "x")
    THEN Raise("AttributeError", <<>>, <<>>)
    ELSE IF origin = None
    THEN Raise("TypeError", <<>>, <<>>)
    ELSE IF ~ (hasattr(detector, "y") /\ hasattr(detector, "z"))
    THEN Raise("AttributeError", <<>>, <<>>)
    ELSE LET original_coordinate_values ==
                 cartesian_coordinate_values(flat(detector), origin, wavevec)
         IN Ok(find_transformation_function(
                   "cartesian", desired_coordinate_system,
                   original_coordinate_values),
               << [ev |-> "find_transformation_function",
                   original |-> "cartesian",
                   values |-> original_coordinate_values] >>)

(***************************************************************************)
(* Illumination metadata.  A quantity without an illumination dimension    *)
(* has illumination = <<>>; with one, values[i] belongs to label           *)
(* illumination[i].                                                        *)
(***************************************************************************)
scalar(v) == [illumination |-> <<>>, values |-> <<v>>]

vector_of(v) == [illumination |-> <<>>, values |-> v]

\* holopy.core.utils.ensure_array
ensure_array(x) == x.values

\* xarray's .sel(illumination=illum).values
sel(a, illum) == a.values[IndexOf(a.illumination, illum)]

\* holopy.core.metadata.update_metadata: a new schema, the two
\* illumination attributes replaced.
update_metadata(schema, illum_wavelen, illum_polarization) ==
    [schema EXCEPT !.attrs.illum_wavelen = scalar(illum_wavelen),
                   !.attrs.illum_polarization = vector_of(illum_polarization)]

\* get_wavevec_from: 2 pi / (illum_wavelen / medium_index), elementwise
\* when the wavelength has an illumination dimension.
get_wavevec_from(schema) ==
    LET w == schema.attrs.illum_wavelen
    IN IF w.illumination = <<>>
       THEN schema.attrs.medium_index \div w.values[1]
       ELSE [w EXCEPT !.values =
                [i \in 1..Len(w.values) |->
                    schema.attrs.medium_index \div w.values[i]]]

(***************************************************************************)
(* Scatterers and theories.                                                *)
(***************************************************************************)
CompositeKinds == {"Spheres", "Scatterers"}

\* isinstance(scatterer, Scatterers)
is_Scatterers(scatterer) == scatterer.kind \in CompositeKinds

\* Scatterers.get_component_list
get_component_list(scatterer) == scatterer.scatterers

RECURSIVE select(_, _)
\* Scatterer.select({illumination: illum}): every parameter that varies by
\* illumination is replaced by its value for that label.
select(scatterer, illum) ==
    [scatterer EXCEPT
       !.n = IF @.illumination = <<>> THEN @ ELSE scalar(sel(@, illum)),
       !.scatterers = [j \in 1..Len(@) |-> select(@[j], illum)]]

\* The capability check theory._can_handle(scatterer), by geometric class.
_can_handle(theory, scatterer) == scatterer.kind \in theory.handles

\* The theory's raw scattering-matrix kernel: one opaque value per point.
_raw_scat_matrs(theory, scatterer, pos, medium_wavevec, medium_index) ==
    Ok([i \in 1..Len(pos[1]) |->
           [S |-> [theory |-> theory, scatterer |-> scatterer,
                   point |-> <<pos[1][i], pos[2][i], pos[3][i]>>,
                   medium_wavevec |-> medium_wavevec,
                   medium_index |-> medium_index]]],
       << [ev |-> "_raw_scat_matrs", scatterer |-> scatterer,
           positions |-> pos] >>)

\* ScatteringTheory._raw_fields: the fields derived from the scattering
\* matrices, point by point, returned transposed, shape (3, N).
_raw_fields(theory, pos, scatterer, medium_wavevec, medium_index, illum_polarization) ==
    LET scat_matr == _raw_scat_matrs(theory, scatterer, pos,
                                     medium_wavevec, medium_index)
        N == Len(pos[1])
        fields == [i \in 1..N |->
            LET kr == pos[1][i]
                theta == pos[2][i]
                phi == pos[3][i]
                escat_sph == [calc_scat_field |->
                    <<kr, phi, scat_matr.val[i],
                      SubSeq(illum_polarization.values, 1, 2)>>]
            IN [c \in 1..3 |->
                  [fieldstocart |-> <<escat_sph, theta, phi>>, comp |-> c]]]
    IN Ok([c \in 1..3 |-> [i \in 1..N |-> fields[i][c]]],
          << [ev |-> "_raw_fields", scatterer |-> scatterer,
              positions |-> pos] >> \o scat_matr.log)

(***************************************************************************)
(* Field values.  A number of the field is a formal sum of symbolic        *)
(* terms, a bag; a kernel value times the phase is a sum of one term.      *)
(***************************************************************************)
ndarray(rows) == [values |-> rows]

\* numpy.transpose of a two-dimensional array
transpose(a) ==
    IF Len(a) = 0 THEN <<>>
    ELSE [i \in 1..Len(a[1]) |-> [c \in 1..Len(a) |-> a[c][i]]]

\* scattered_field *= phase
times_phase(a, phase) ==
    [i \in 1..Len(a) |-> [c \in 1..Len(a[i]) |->
        SetToBag({[factor |-> phase, of |-> a[i][c]]})]]

\* field += other, elementwise on arrays with the same labels
add_fields(a, b) ==
    [a EXCEPT !.values =
        [i \in 1..Len(a.values) |-> [c \in 1..Len(a.values[i]) |->
            a.values[i][c] (+) b.values[i][c]]]]

(***************************************************************************)
(* The result packers.                                                     *)
(***************************************************************************)
\* A field packer that lays the rows out last point first
_pack_field_into_xarray_reversed(scattered_field, schema) ==
    LET flattened_schema == flat(schema)
        point_or_flat == _is_detector_view_point_or_flat(
            [isDataArray |-> TRUE, dims |-> flattened_schema.dims])
        N == Len(scattered_field.values)
    IN IF ~ point_or_flat.ok THEN point_or_flat
       ELSE Ok([dims |-> <<point_or_flat.val, "vector">>,
                values |-> [i \in 1..N |-> scattered_field.values[N + 1 - i]],
                index |-> flattened_schema.index,
                coords |-> flattened_schema.coords,
                vector |-> <<"x", "y", "z">>,
                attrs |-> schema.attrs], <<>>)

\* ScatteringTheory._pack_field_into_xarray
_pack_field_into_xarray(scattered_field, schema) ==
    LET flattened_schema == flat(schema)
        point_or_flat == _is_detector_view_point_or_flat(
            [isDataArray |-> TRUE, dims |-> flattened_schema.dims])
    IN IF ~ point_or_flat.ok THEN point_or_flat
       ELSE Ok([dims |-> <<point_or_flat.val, "vector">>,
                values |-> scattered_field.values,
                index |-> flattened_schema.index,
                coords |-> flattened_schema.coords,
                vector |-> <<"x", "y", "z">>,
                attrs |-> schema.attrs], <<>>)

\* ScatteringTheory._pack_scattering_matrix_into_xarray
_pack_scattering_matrix_into_xarray(scat_matrs, r_theta_phi, schema) ==
    LET flattened_schema == flat(schema)
        point_or_flat == _is_detector_view_point_or_flat(
            [isDataArray |-> TRUE, dims |-> flattened_schema.dims])
    IN IF ~ point_or_flat.ok THEN point_or_flat
       ELSE Ok([dims |-> <<point_or_flat.val, "Epar", "Eperp">>,
                values |-> scat_matrs,
                index |-> flattened_schema.index,
                coords |-> [r |-> r_theta_phi[1],
                            theta |-> r_theta_phi[2],
                            phi |-> r_theta_phi[3]],
                Epar |-> <<"S2", "S3">>,
                Eperp |-> <<"S4", "S1">>,
                attrs |-> schema.attrs], <<>>)

(***************************************************************************)
(* The computation core.                                                   *)
(***************************************************************************)
\* ScatteringTheory._get_field_from
_get_field_from(theory, scatterer, schema) ==
    LET wavevector == get_wavevec_from(schema)
        positions == _transform_to_desired_coordinates(
            schema, scatterer.center, wavevector)
    IN IF ~ positions.ok THEN positions
       ELSE LET raw == _raw_fields(theory, positions.val, scatterer,
                                   wavevector, schema.attrs.medium_index,
                                   schema.attrs.illum_polarization)
                phase == [exp_minus_i |-> wavevector * scatterer.center[3]]
            IN Ok(ndarray(times_phase(transpose(raw.val), phase)),
                  positions.log \o raw.log)

RECURSIVE _calculate_single_color_scattered_field(_, _, _)
RECURSIVE superposition_loop(_, _, _, _, _)

\* The loop of _calculate_scattered_field_from_superposition from
\* component j on, acc the outcome so far; a raise ends it.
superposition_loop(theory, scatterers, schema, j, acc) ==
    IF ~ acc.ok \/ j > Len(scatterers) THEN acc
    ELSE LET f == _calculate_single_color_scattered_field(
                      theory, scatterers[j], schema)
         IN IF ~ f.ok THEN Raise(f.err, f.val, acc.log \o f.log)
            ELSE superposition_loop(theory, scatterers, schema, j + 1,
                     Ok(add_fields(acc.val, f.val), acc.log \o f.log))

\* A superposition whose loop starts one component late (scatterers[2:])
_calculate_scattered_field_from_superposition_skips_one(theory, scatterers, schema) ==
    IF Len(scatterers) = 0 THEN Raise("IndexError", <<>>, <<>>)
    ELSE superposition_loop(theory, scatterers, schema, 3,
             _calculate_single_color_scattered_field(
                 theory, scatterers[1], schema))

\* ScatteringTheory._calculate_scattered_field_from_superposition
_calculate_scattered_field_from_superposition(theory, scatterers, schema) ==
    IF Len(scatterers) = 0 THEN Raise("IndexError", <<>>, <<>>)
    ELSE superposition_loop(theory, scatterers, schema, 2,
             _calculate_single_color_scattered_field(
                 theory, scatterers[1], schema))

\* ScatteringTheory._calculate_single_color_scattered_field
_calculate_single_color_scattered_field(theory, scatterer, schema) ==
    LET entry == << [ev |-> "_calculate_single_color_scattered_field",
                     scatterer |-> scatterer, schema |-> schema],
                    [ev |-> "_can_handle", scatterer |-> scatterer] >>
        fld == IF _can_handle(theory, scatterer)
               THEN _get_field_from(theory, scatterer, schema)
               ELSE IF is_Scatterers(scatterer)
               THEN _calculate_scattered_field_from_superposition(
                        theory, get_component_list(scatterer), schema)
               ELSE Raise("TheoryNotCompatibleError",
                          [theory |-> theory, scatterer |-> scatterer], <<>>)
    IN IF ~ fld.ok THEN Raise(fld.err, fld.val, entry \o fld.log)
       ELSE LET packed == _pack_field_into_xarray(fld.val, schema)
            IN IF ~ packed.ok
               THEN Raise(packed.err, packed.val, entry \o fld.log)
               ELSE Ok(packed.val, entry \o fld.log)

\* ScatteringTheory.calculate_scattering_matrix
calculate_scattering_matrix(theory, scatterer, schema) ==
    LET positions == _transform_to_desired_coordinates(
            schema, scatterer.center, 1)
    IN IF ~ positions.ok THEN positions
       ELSE LET scat_matrs == _raw_scat_matrs(
                    theory, scatterer, positions.val,
                    get_wavevec_from(schema), schema.attrs.medium_index)
                packed == _pack_scattering_matrix_into_xarray(
                    scat_matrs.val, positions.val, schema)
            IN IF ~ packed.ok
               THEN Raise(packed.err, packed.val,
                          positions.log \o scat_matrs.log)
               ELSE Ok(packed.val, positions.log \o scat_matrs.log)

\* The test is_multicolor_hologram of calculate_scattered_field
is_multicolor_hologram(schema) ==
    Len(ensure_array(schema.attrs.illum_wavelen)) > 1

\* The labels taken last to first
illumination_values_reversed(schema) ==
    LET s == schema.attrs.illum_wavelen.illumination
    IN [i \in 1..Len(s) |-> s[Len(s) + 1 - i]]

\* The labels the multi-colour loop runs over, in the loop's order
illumination_values(schema) == schema.attrs.illum_wavelen.illumination

\* The derived schema of one pass of the multi-colour loop
this_schema(schema, illum) ==
    update_metadata(schema,
        ensure_array(scalar(sel(schema.attrs.illum_wavelen, illum)))[1],
        ensure_array(vector_of(sel(schema.attrs.illum_polarization, illum))))

\* One pass of the loop of _calculate_multiple_color_scattered_field
this_field(theory, scatterer, schema, illum) ==
    _calculate_single_color_scattered_field(
        theory, select(scatterer, illum), this_schema(schema, illum))

\* holopy.core.metadata.clean_concat: the fields, in the order given, along
\* a new illumination dimension labelled by dim.
clean_concat(fields, dim) ==
    [dims |-> fields[1].dims \o <<"illumination">>,
     illumination |-> dim,
     values |-> [i \in 1..Len(fields) |-> fields[i].values],
     index |-> fields[1].index,
     coords |-> fields[1].coords,
     vector |-> fields[1].vector]

\* A calculate_scattered_field that looks at the center only on the
\* single-colour path
calculate_scattered_field_center_checked_late(theory, scatterer, schema) ==
    IF is_multicolor_hologram(schema)
    THEN [next |-> "multicolor", out |-> Ok(<<>>, <<>>)]
    ELSE IF scatterer.center = None
    THEN [next |-> "done", out |-> Raise("MissingParameter", "center", <<>>)]
    ELSE [next |-> "done",
          out |-> _calculate_single_color_scattered_field(
                      theory, scatterer, schema)]

\* ScatteringTheory.calculate_scattered_field up to the multi-colour loop:
\* next = "multicolor" hands over to the loop, "done" is a return or raise.
calculate_scattered_field(theory, scatterer, schema) ==
    IF scatterer.center = None
    THEN [next |-> "done", out |-> Raise("MissingParameter", "center", <<>>)]
    ELSE IF is_multicolor_hologram(schema)
    THEN [next |-> "multicolor", out |-> Ok(<<>>, <<>>)]
    ELSE [next |-> "done",
          out |-> _calculate_single_color_scattered_field(
                      theory, scatterer, schema)]

\* A dispatch that does not know the layered sphere
determine_default_theory_for_no_layered_sphere(scatterer) ==
    IF scatterer.kind = "Sphere" THEN Ok("Mie", <<>>)
    ELSE IF scatterer.kind = "Spheres" THEN Ok("Multisphere", <<>>)
    ELSE IF scatterer.kind \in {"Spheroid", "Cylinder"}
    THEN Ok("Tmatrix", <<>>)
    ELSE Raise("UnsupportedScatterer", scatterer.kind, <<>>)

\* holopy.scattering.calculations.determine_default_theory_for
determine_default_theory_for(scatterer) ==
    IF scatterer.kind \in {"Sphere", "LayeredSphere"} THEN Ok("Mie", <<>>)
    ELSE IF scatterer.kind = "Spheres" THEN Ok("Multisphere", <<>>)
    ELSE IF scatterer.kind \in {"Spheroid", "Cylinder"}
    THEN Ok("Tmatrix", <<>>)
    ELSE Raise("UnsupportedScatterer", scatterer.kind, <<>>)

(***************************************************************************)
(* The inputs the operations are called with.                              *)
(***************************************************************************)
LabelNames == <<"red", "green", "blue", "violet">>

AllLabels == [i \in 1..MaxLabels |-> LabelNames[i]]

\* Reduced wavelength and polarization of the i-th label
WavelenOf(i) == IF i % 3 = 1 THEN 3 ELSE IF i % 3 = 2 THEN 2 ELSE 1

PolarizationOf(i) == IF i % 2 = 1 THEN <<1, 0, 0>> ELSE <<0, 1, 0>>

LabelOrders ==
    {s \in SeqsUpTo(Range(AllLabels), 2, MaxLabels) : IsInjective(s)}

Illuminations ==
    {[illum_wavelen |-> scalar(w),
      illum_polarization |-> vector_of(<<0, 1, 0>>),
      medium_index |-> 6] : w \in {1, 2}}
    \cup
    {[illum_wavelen |-> [illumination |-> s,
          values |-> [i \in 1..Len(s) |-> WavelenOf(IndexOf(AllLabels, s[i]))]],
      illum_polarization |-> [illumination |-> s,
          values |-> [i \in 1..Len(s) |->
                         PolarizationOf(IndexOf(AllLabels, s[i]))]],
      medium_index |-> 6] : s \in LabelOrders}

NoIllumination ==
    [illum_wavelen |-> scalar(1), illum_polarization |-> vector_of(<<0, 1, 0>>),
     medium_index |-> 6]

\* detector_grid(shape = (nx, ny), spacing): x and y axes, a scalar z
Grid(nx, ny, spacing, z) ==
    [dims |-> <<"x", "y">>, index |-> <<>>,
     coords |-> [x |-> [i \in 1..nx |-> (i - 1) * spacing],
                 y |-> [j \in 1..ny |-> (j - 1) * spacing],
                 z |-> <<z>>],
     attrs |-> NoIllumination]

ColumnOf(name, p) ==
    IF name \in {"x", "r"} THEN p[1]
    ELSE IF name \in {"y", "theta"} THEN p[2]
    ELSE p[3]

\* A list of points with the named coordinate columns
PointList(dim, names, pts) ==
    [dims |-> <<dim>>, index |-> [i \in 1..Len(pts) |-> i - 1],
     coords |-> [c \in names |-> [i \in 1..Len(pts) |-> ColumnOf(c, pts[i])]],
     attrs |-> NoIllumination]

PointPool == {<<0, 0, 0>>, <<1, 0, 2>>, <<2, 3, 1>>}

ColumnSets ==
    {{"x", "y", "z"}, {"theta", "phi"}, {"r", "theta", "phi"},
     {"x", "y", "z", "theta"}, {"x", "y", "z", "phi"}, {"theta"},
     {"x", "y", "z", "r", "theta", "phi"}, {"x", "y", "z", "r"}, {"x", "y"}}

Detectors ==
    {PointList(d, names, pts) :
        d \in {"point", "flat"}, names \in ColumnSets,
        pts \in SeqsUpTo(PointPool, 1, MaxPoints)}
    \cup {Grid(nx, ny, 1, z) : nx \in 1..MaxPoints, ny \in 1..MaxPoints,
                               z \in {0, 2}}

Origins == {None, <<0, 0, 0>>, <<1, 2, 3>>}

Wavevectors == {1, 2, 3}

DetectorsForCalc ==
    {Grid(MaxPoints, 2, 1, 0),
     PointList("point", {"x", "y", "z"},
               [i \in 1..MaxPoints |-> <<i, 2 * i, i - 1>>]),
     PointList("point", {"r", "theta", "phi"},
               [i \in 1..MaxPoints |-> <<i, 2 * i, i - 1>>]),
     PointList("point", {"theta", "phi"},
               [i \in 1..MaxPoints |-> <<i, 2 * i, i - 1>>])}

SingleColour == {a \in Illuminations : a.illum_wavelen.illumination = <<>>}

\* Every detector with every single-colour illumination; the grid and the
\* Cartesian point list with every multi-colour one.
Schemas ==
    {[d EXCEPT !.attrs = a] : d \in DetectorsForCalc, a \in SingleColour}
    \cup {[d EXCEPT !.attrs = a] :
             d \in {e \in DetectorsForCalc : hasattr(e, "x")},
             a \in Illuminations \ SingleColour}

Theories == [handles : SUBSET {"Sphere", "Spheroid", "Spheres"}]

Leaf(kind, center, n) ==
    [kind |-> kind, center |-> center, n |-> n, scatterers |-> <<>>]

VaryingIndex ==
    [illumination |-> AllLabels, values |-> [i \in 1..MaxLabels |-> i + 1]]

Composite(center, scatterers) ==
    [kind |-> IF \A j \in 1..Len(scatterers) : scatterers[j].kind = "Sphere"
              THEN "Spheres" ELSE "Scatterers",
     center |-> center, n |-> scalar(1), scatterers |-> scatterers]

Leaves ==
    {Leaf("Sphere", c, n) : c \in {None, <<0, 0, 1>>, <<1, 2, 3>>},
                            n \in {scalar(2), VaryingIndex}}
    \cup {Leaf("Spheroid", c, scalar(2)) : c \in {None, <<0, 0, 1>>}}

ComponentPool ==
    {Leaf("Sphere", <<0, 0, 1>>, VaryingIndex),
     Leaf("Sphere", <<1, 2, 3>>, scalar(2)),
     Leaf("Spheroid", <<0, 0, 1>>, scalar(2))}

Clusters ==
    {Composite(<<0, 0, 1>>, s) : s \in SeqsUpTo(ComponentPool, 0, MaxComponents)}
    \cup {Composite(None, s) : s \in SeqsUpTo(ComponentPool, 0, 1)}

NestedPool ==
    {Leaf("Sphere", <<1, 2, 3>>, scalar(2)),
     Composite(<<0, 0, 1>>, <<>>),
     Composite(<<0, 0, 1>>, <<Leaf("Sphere", <<0, 0, 1>>, VaryingIndex),
                              Leaf("Spheroid", <<0, 0, 1>>, scalar(2))>>)}

Nested ==
    {Composite(<<0, 0, 1>>, s) : s \in SeqsUpTo(NestedPool, 1, MaxComponents)}

ScattererInputs == Leaves \cup Clusters \cup Nested

\* calculate_scattering_matrix does not look into the scatterer
MatrixScattererInputs ==
    {s \in Leaves \cup Clusters : Len(s.scatterers) <= 1}

DispatchKinds ==
    {"Sphere", "LayeredSphere", "Spheres", "Spheroid", "Cylinder",
     "Ellipsoid", "Capsule", "Scatterers"}

DimNames == {"flat", "point", "x", "y", "z", "vector"}

DetectorViews ==
    LET tuples == {s \in SeqsUpTo(DimNames, 0, MaxDims) : IsInjective(s)}
    IN {[isDataArray |-> TRUE, dims |-> s] : s \in tuples}
       \cup {[isDataArray |-> FALSE, tuple |-> s] : s \in tuples}

RawRows == {<<1, 2, 3>>, <<4, 5, 6>>}

(***************************************************************************)
(* The state machine: a caller makes one call at a time.  op and args name *)
(* the call in progress, ret its outcome and log the calls it made; field  *)
(* and illum_i are the list and the position of the multi-colour loop.     *)
(***************************************************************************)
Init ==
    /\ pc = "idle"
    /\ op = "none"
    /\ args = <<>>
    /\ ret = NoRet
    /\ log = <<>>
    /\ field = <<>>
    /\ illum_i = 0

Finish(name, a, out) ==
    /\ pc' = "done"
    /\ op' = name
    /\ args' = a
    /\ ret' = [ok |-> out.ok, err |-> out.err, val |-> out.val]
    /\ log' = out.log
    /\ UNCHANGED <<field, illum_i>>

Call_is_detector_view_point_or_flat ==
    /\ pc = "idle"
    /\ \E detector_view \in DetectorViews :
         Finish("_is_detector_view_point_or_flat",
                [detector_view |-> detector_view],
                _is_detector_view_point_or_flat(detector_view))

Call_transform_to_desired_coordinates ==
    /\ pc = "idle"
    /\ \E detector \in Detectors, origin \in Origins, wavevec \in Wavevectors :
         Finish("_transform_to_desired_coordinates",
                [detector |-> detector, origin |-> origin,
                 wavevec |-> wavevec],
                _transform_to_desired_coordinates(detector, origin, wavevec))

Call_determine_default_theory_for ==
    /\ pc = "idle"
    /\ \E kind \in DispatchKinds :
         LET scatterer == Leaf(kind, None, scalar(1))
         IN Finish("determine_default_theory_for",
                   [scatterer |-> scatterer],
                   determine_default_theory_for(scatterer))

Call_pack_field_into_xarray ==
    /\ pc = "idle"
    /\ \E schema \in Schemas :
         \E rows \in [1..NumPoints(flat(schema)) -> RawRows] :
            Finish("_pack_field_into_xarray",
                   [scattered_field |-> ndarray(rows), schema |-> schema],
                   _pack_field_into_xarray(ndarray(rows), schema))

Call_pack_scattering_matrix_into_xarray ==
    /\ pc = "idle"
    /\ \E schema \in Schemas, origin \in Origins \ {None} :
         \E scat_matrs \in [1..NumPoints(flat(schema)) -> RawRows] :
            LET r_theta_phi ==
                    _transform_to_desired_coordinates(schema, origin, 1).val
            IN Finish("_pack_scattering_matrix_into_xarray",
                      [scat_matrs |-> scat_matrs,
                       r_theta_phi |-> r_theta_phi, schema |-> schema],
                      _pack_scattering_matrix_into_xarray(
                          scat_matrs, r_theta_phi, schema))

Call_calculate_scattering_matrix ==
    /\ pc = "idle"
    /\ \E theory \in Theories, scatterer \in MatrixScattererInputs,
          schema \in Schemas :
         Finish("calculate_scattering_matrix",
                [theory |-> theory, scatterer |-> scatterer,
                 schema |-> schema],
                calculate_scattering_matrix(theory, scatterer, schema))

Call_calculate_scattered_field ==
    /\ pc = "idle"
    /\ \E theory \in Theories, scatterer \in ScattererInputs,
          schema \in Schemas :
         LET c == calculate_scattered_field(theory, scatterer, schema)
         IN /\ pc' = c.next
            /\ op' = "calculate_scattered_field"
            /\ args' = [theory |-> theory, scatterer |-> scatterer,
                        schema |-> schema]
            /\ ret' = IF c.next = "done"
                      THEN [ok |-> c.out.ok, err |-> c.out.err,
                            val |-> c.out.val]
                      ELSE NoRet
            /\ log' = c.out.log
            /\ field' = <<>>
            /\ illum_i' = IF c.next = "multicolor" THEN 1 ELSE 0

\* One pass of the loop of _calculate_multiple_color_scattered_field; a
\* raise in the pass ends the call.
multiple_color_iteration ==
    /\ pc = "multicolor"
    /\ illum_i <= Len(illumination_values(args.schema))
    /\ LET illum == illumination_values(args.schema)[illum_i]
           f == this_field(args.theory, args.scatterer, args.schema, illum)
       IN /\ log' = log \o f.log
          /\ IF f.ok
             THEN /\ field' = Append(field, f.val)
                  /\ illum_i' = illum_i + 1
                  /\ UNCHANGED <<pc, ret>>
             ELSE /\ pc' = "done"
                  /\ ret' = [ok |-> FALSE, err |-> f.err, val |-> f.val]
                  /\ UNCHANGED <<field, illum_i>>
    /\ UNCHANGED <<op, args>>

\* The loop is over: clean_concat and return.
multiple_color_concat ==
    /\ pc = "multicolor"
    /\ illum_i > Len(illumination_values(args.schema))
    /\ pc' = "done"
    /\ ret' = [ok |-> TRUE, err |-> "",
               val |-> clean_concat(field, illumination_values(args.schema))]
    /\ UNCHANGED <<op, args, log, field, illum_i>>

\* The caller takes the outcome; the theory object keeps no state.
Return ==
    /\ pc = "done"
    /\ pc' = "idle"
    /\ op' = "none"
    /\ args' = <<>>
    /\ ret' = NoRet
    /\ log' = <<>>
    /\ field' = <<>>
    /\ illum_i' = 0

Next ==
    \/ Call_is_detector_view_point_or_flat
    \/ Call_transform_to_desired_coordinates
    \/ Call_determine_default_theory_for
    \/ Call_pack_field_into_xarray
    \/ Call_pack_scattering_matrix_into_xarray
    \/ Call_calculate_scattering_matrix
    \/ Call_calculate_scattered_field
    \/ multiple_color_iteration
    \/ multiple_color_concat
    \/ Return

Spec == Init /\ [][Next]_vars

(***************************************************************************)
(* Properties.                                                             *)
(***************************************************************************)
InFieldCall == op = "calculate_scattered_field"

InMatrixCall == op = "calculate_scattering_matrix"

IsRawKernel(e) == e.ev \in {"_raw_fields", "_raw_scat_matrs"}

\* The calls that C1 says are not reached
IsGuardedCall(e) ==
    e.ev \in {"_can_handle", "find_transformation_function",
              "_raw_fields", "_raw_scat_matrs",
              "_calculate_single_color_scattered_field"}

\* C1: calculate_scattered_field on a scatterer whose center is None raises
\* MissingParameter, whatever the theory and the schema (single-colour or
\* multi-colour), and it has made no capability check, no coordinate
\* transformation and no kernel call when it does: the call is over at once
\* (it never enters the multi-colour loop) and its log holds none of them.
C1_MissingCenter ==
    (InFieldCall /\ args.scatterer.center = None)
        => /\ pc = "done"
           /\ ~ ret.ok
           /\ ret.err = "MissingParameter"
           /\ \A j \in 1..Len(log) : ~ IsGuardedCall(log[j])

C1_Witness ==
    /\ InFieldCall
    /\ args.scatterer.center = None
    /\ is_multicolor_hologram(args.schema)
    /\ is_Scatterers(args.scatterer)
    /\ ret.err = "MissingParameter"

\* C2 (as claimed): in calculate_scattered_field and in
\* calculate_scattering_matrix, every call of a raw kernel (_raw_fields or
\* _raw_scat_matrs) is made on a scatterer the theory's capability check
\* accepts.
C2_KernelOnlyOnCompatible ==
    (InFieldCall \/ InMatrixCall)
        => \A j \in 1..Len(log) :
              IsRawKernel(log[j]) => _can_handle(args.theory, log[j].scatterer)

RECURSIVE SumCopies(_, _, _)
\* The number of copies of term t in the bags bs[1..n] together
SumCopies(t, bs, n) ==
    IF n = 0 THEN 0 ELSE CopiesIn(t, bs[n]) + SumCopies(t, bs, n - 1)

\* b is the sum of the formal sums bs: every term has in b as many copies
\* as in all of bs together.
IsSumOf(b, bs) ==
    \A t \in BagToSet(b) \cup UNION {BagToSet(bs[j]) : j \in 1..Len(bs)} :
        CopiesIn(t, b) = SumCopies(t, bs, Len(bs))

\* The field calculate_scattered_field computes for one scatterer by itself
FieldAlone(theory, scatterer, schema) ==
    calculate_scattered_field(theory, scatterer, schema).out

\* C3: for a single-colour schema and a composite scatterer the capability
\* check rejects, the field calculate_scattered_field returns is, element by
\* element, the sum of the fields computed for each element of
\* get_component_list() by itself (same theory, same schema), each counted
\* once; the component fields are themselves computed by the same rule, so
\* a component that is a rejected composite is expanded in the same way.
C3_Superposition ==
    (/\ InFieldCall
     /\ pc = "done"
     /\ ret.ok
     /\ ~ is_multicolor_hologram(args.schema)
     /\ is_Scatterers(args.scatterer)
     /\ ~ _can_handle(args.theory, args.scatterer))
        => LET comps == get_component_list(args.scatterer)
               alone == [j \in 1..Len(comps) |->
                           FieldAlone(args.theory, comps[j], args.schema)]
           IN /\ Len(comps) >= 1
              /\ \A j \in 1..Len(comps) : alone[j].ok
              /\ Len(ret.val.values) = NumPoints(flat(args.schema))
              /\ \A i \in 1..Len(ret.val.values) :
                    /\ Len(ret.val.values[i]) = 3
                    /\ \A c \in 1..3 :
                          IsSumOf(ret.val.values[i][c],
                                  [j \in 1..Len(comps) |->
                                      alone[j].val.values[i][c]])

C3_Witness ==
    /\ InFieldCall
    /\ pc = "done"
    /\ ret.ok
    /\ ~ is_multicolor_hologram(args.schema)
    /\ ~ _can_handle(args.theory, args.scatterer)
    /\ Len(get_component_list(args.scatterer)) = MaxComponents
    /\ \E j \in 1..MaxComponents :
          /\ is_Scatterers(get_component_list(args.scatterer)[j])
          /\ Len(get_component_list(get_component_list(args.scatterer)[j])) > 1
    /\ get_component_list(args.scatterer)[1]
          = get_component_list(args.scatterer)[2]

\* The schema derived for the i-th illumination label: that label's
\* wavelength, as a scalar, and its polarization.
DerivedSchema(schema, i) ==
    [schema EXCEPT
        !.attrs.illum_wavelen = scalar(@.values[i]),
        !.attrs.illum_polarization = vector_of(@.values[i])]

\* The single-colour computation for the i-th label of the call in progress
ColourCall(i) ==
    [ev |-> "_calculate_single_color_scattered_field",
     scatterer |-> select(args.scatterer,
                          args.schema.attrs.illum_wavelen.illumination[i]),
     schema |-> DerivedSchema(args.schema, i)]

PositionsOf(e) == {j \in 1..Len(log) : log[j] = e}

ColourField(i) ==
    _calculate_single_color_scattered_field(
        args.theory, ColourCall(i).scatterer, ColourCall(i).schema).val

\* C4: on a schema whose illumination wavelength has more than one value,
\* calculate_scattered_field makes the single-colour computations one label
\* at a time in the order of the schema's labels, none twice, each on the
\* derived schema of its label (scalar wavelength, that label's
\* polarization) and on the scatterer variant selected for the label; the
\* list of fields grows by one per pass; and a returned result lists the
\* labels in the schema's order, has made exactly one computation per label
\* and has the i-th field as its i-th slice.
C4_MultiColourInOrder ==
    (/\ InFieldCall
     /\ args.scatterer.center # None
     /\ is_multicolor_hologram(args.schema))
        => LET labels == args.schema.attrs.illum_wavelen.illumination
               n == Len(labels)
               started(i) == PositionsOf(ColourCall(i)) # {}
           IN /\ \A i \in 1..n : Cardinality(PositionsOf(ColourCall(i))) <= 1
              /\ \A i, j \in 1..n :
                    (i < j /\ started(j))
                        => /\ started(i)
                           /\ \A p \in PositionsOf(ColourCall(i)),
                                 q \in PositionsOf(ColourCall(j)) : p < q
              /\ pc = "multicolor"
                    => /\ Len(field) = illum_i - 1
                       /\ illum_i <= n + 1
                       /\ \A i \in 1..n : started(i) <=> i < illum_i
                       /\ \A i \in 1..Len(field) : field[i] = ColourField(i)
              /\ (pc = "done" /\ ret.ok)
                    => /\ \A i \in 1..n : started(i)
                       /\ ret.val.illumination = labels
                       /\ Len(ret.val.values) = n
                       /\ \A i \in 1..n :
                             ret.val.values[i] = ColourField(i).values

C4_Witness ==
    /\ InFieldCall
    /\ pc = "done"
    /\ ret.ok
    /\ Len(args.schema.attrs.illum_wavelen.illumination) = MaxLabels
    /\ args.schema.attrs.illum_wavelen.illumination # AllLabels
    /\ \E j \in 1..Len(args.scatterer.scatterers) :
          args.scatterer.scatterers[j].n.illumination # <<>>

\* The distance-squared of point i of the flattened detector from origin
Dist2(f, origin, i) ==
    (f.coords.x[i] - origin[1]) * (f.coords.x[i] - origin[1])
    + (f.coords.y[i] - origin[2]) * (f.coords.y[i] - origin[2])
    + (f.coords.z[i] - origin[3]) * (f.coords.z[i] - origin[3])

\* C5 (as claimed): the array calculate_scattering_matrix returns carries
\* r, theta and phi columns that are the transformed positions handed to
\* the raw scattering-matrix kernel, and r is scaled by the schema's
\* wavevector k: k times the distance of the point from the scatterer's
\* center (k times the detector's own r for a detector given in spherical
\* coordinates).
C5_MatrixCoordinatesScaled ==
    (/\ InMatrixCall
     /\ ret.ok
     /\ ~ is_multicolor_hologram(args.schema))
        => LET k == get_wavevec_from(args.schema)
               f == flat(args.schema)
           IN /\ \E j \in 1..Len(log) :
                    /\ log[j].ev = "_raw_scat_matrs"
                    /\ ret.val.coords.r = log[j].positions[1]
                    /\ ret.val.coords.theta = log[j].positions[2]
                    /\ ret.val.coords.phi = log[j].positions[3]
              /\ original_coordinate_system(args.schema) = "cartesian"
                    => \A i \in 1..NumPoints(f) :
                          ret.val.coords.r[i]
                             = Sqrt(k * k * Dist2(f, args.scatterer.center, i))
              /\ (/\ original_coordinate_system(args.schema) = "spherical"
                  /\ hasattr(args.schema, "r"))
                    => \A i \in 1..NumPoints(f) :
                          ret.val.coords.r[i] = k * args.schema.coords.r[i]

\* C6: packing keeps the points in order.  The packed field and the packed
\* scattering matrix have one row per point of the flattened detector view;
\* row i holds the raw value of point i and carries the index label and the
\* coordinate columns of point i of the flattened view (for a matrix, the
\* i-th entries of the r, theta and phi columns handed in).  In a field
\* computed by one kernel call, row i, component c is the kernel's value
\* for component c at the transformed position of point i.
C6_PackingKeepsOrder ==
    /\ (op = "_pack_field_into_xarray" /\ ret.ok)
          => LET f == flat(args.schema)
             IN /\ Len(ret.val.values) = NumPoints(f)
                /\ ret.val.dims[1] = f.dims[1]
                /\ \A i \in 1..NumPoints(f) :
                      /\ ret.val.values[i] = args.scattered_field.values[i]
                      /\ ret.val.index[i] = f.index[i]
                      /\ \A c \in DOMAIN f.coords :
                            ret.val.coords[c][i] = f.coords[c][i]
    /\ (op = "_pack_scattering_matrix_into_xarray" /\ ret.ok)
          => LET f == flat(args.schema)
             IN /\ Len(ret.val.values) = NumPoints(f)
                /\ ret.val.dims[1] = f.dims[1]
                /\ \A i \in 1..NumPoints(f) :
                      /\ ret.val.values[i] = args.scat_matrs[i]
                      /\ ret.val.index[i] = f.index[i]
                      /\ ret.val.coords.r[i] = args.r_theta_phi[1][i]
                      /\ ret.val.coords.theta[i] = args.r_theta_phi[2][i]
                      /\ ret.val.coords.phi[i] = args.r_theta_phi[3][i]
    /\ (/\ InFieldCall
        /\ pc = "done"
        /\ ret.ok
        /\ ~ is_multicolor_hologram(args.schema)
        /\ _can_handle(args.theory, args.scatterer))
          => LET f == flat(args.schema)
             IN /\ Len(ret.val.values) = NumPoints(f)
                /\ \E j \in 1..Len(log) :
                      /\ log[j].ev = "_raw_fields"
                      /\ \A i \in 1..NumPoints(f) :
                            /\ ret.val.index[i] = f.index[i]
                            /\ \A c \in 1..3 :
                                  \E t \in BagToSet(ret.val.values[i][c]) :
                                     /\ ret.val.values[i][c] = SetToBag({t})
                                     /\ t.of.comp = c
                                     /\ t.of.fieldstocart[2]
                                           = log[j].positions[2][i]
                                     /\ t.of.fieldstocart[3]
                                           = log[j].positions[3][i]
                                     /\ t.of.fieldstocart[1].calc_scat_field[1]
                                           = log[j].positions[1][i]

C6_Witness ==
    /\ op = "_pack_field_into_xarray"
    /\ ret.ok
    /\ args.schema.dims = <<"x", "y">>
    /\ NumPoints(flat(args.schema)) > 2
    /\ args.scattered_field.values[1] # args.scattered_field.values[2]

\* C7: determine_default_theory_for returns a Mie theory for a sphere and
\* for a layered sphere, a Multisphere theory for a cluster of spheres and
\* a T-matrix theory for a spheroid and for a cylinder; for a scatterer of
\* any other class it raises the unsupported-scatterer error and returns
\* no theory.
C7_DefaultTheory ==
    (op = "determine_default_theory_for")
        => LET kind == args.scatterer.kind
           IN /\ kind \in {"Sphere", "LayeredSphere"}
                    => (ret.ok /\ ret.val = "Mie")
              /\ kind = "Spheres" => (ret.ok /\ ret.val = "Multisphere")
              /\ kind \in {"Spheroid", "Cylinder"}
                    => (ret.ok /\ ret.val = "Tmatrix")
              /\ kind \notin {"Sphere", "LayeredSphere", "Spheres",
                              "Spheroid", "Cylinder"}
                    => (~ ret.ok /\ ret.err = "UnsupportedScatterer")

C7_Witness ==
    /\ op = "determine_default_theory_for"
    /\ args.scatterer.kind = "LayeredSphere"
    /\ ret.val = "Mie"

RECURSIVE ReachesIncompatiblePrimitive(_, _)
\* The decomposition of scatterer reaches a scatterer the capability check
\* rejects and that is not composite.
ReachesIncompatiblePrimitive(theory, scatterer) ==
    IF _can_handle(theory, scatterer) THEN FALSE
    ELSE IF is_Scatterers(scatterer)
    THEN \E j \in 1..Len(get_component_list(scatterer)) :
            ReachesIncompatiblePrimitive(theory,
                                         get_component_list(scatterer)[j])
    ELSE TRUE

\* C8 (as claimed): the single-colour path of calculate_scattered_field
\* ends by returning a packed field or by raising TheoryNotCompatibleError
\* with the theory and the offending scatterer, and in no other way; it
\* raises TheoryNotCompatibleError exactly when the decomposition reaches a
\* rejected scatterer that is not composite; a rejected composite raises no
\* other kind of error.
C8_TwoOutcomes ==
    (/\ InFieldCall
     /\ pc = "done"
     /\ args.scatterer.center # None
     /\ ~ is_multicolor_hologram(args.schema))
        => /\ ret.ok \/ ret.err = "TheoryNotCompatibleError"
           /\ ret.err = "TheoryNotCompatibleError"
                 <=> ReachesIncompatiblePrimitive(args.theory, args.scatterer)
           /\ ret.err = "TheoryNotCompatibleError"
                 => /\ ret.val.theory = args.theory
                    /\ ~ _can_handle(args.theory, ret.val.scatterer)
                    /\ ~ is_Scatterers(ret.val.scatterer)

DimsOf(view) == IF view.isDataArray THEN view.dims ELSE view.tuple

\* C9: the classification of a detector view depends only on the names of
\* its dimensions: "flat" when a flat dimension is present (also beside a
\* point dimension), otherwise "point" when a point dimension is present,
\* otherwise the ValueError that tells the caller to flatten first.  Every
\* view with the same dimension names is classified the same, and a view
\* that has just the dimension the tag names is given that tag again.
C9_Classification ==
    (op = "_is_detector_view_point_or_flat")
        => LET names == Range(DimsOf(args.detector_view))
               same(out) == /\ out.ok = ret.ok
                            /\ out.err = ret.err
                            /\ out.val = ret.val
           IN /\ "flat" \in names => (ret.ok /\ ret.val = "flat")
              /\ ("flat" \notin names /\ "point" \in names)
                    => (ret.ok /\ ret.val = "point")
              /\ ("flat" \notin names /\ "point" \notin names)
                    => /\ ~ ret.ok
                       /\ ret.err = "ValueError"
                       /\ ret.val = "Call flat first."
              /\ \A v \in DetectorViews :
                    Range(DimsOf(v)) = names
                        => same(_is_detector_view_point_or_flat(v))
              /\ ret.ok
                    => same(_is_detector_view_point_or_flat(
                           [isDataArray |-> TRUE, dims |-> <<ret.val>>]))

C9_Witness ==
    /\ op = "_is_detector_view_point_or_flat"
    /\ DimsOf(args.detector_view) = <<"point", "flat">>
    /\ ret.val = "flat"

\* C10: what the coordinate transformer hands the conversion routine, for
\* wavevector k and origin (cx, cy, cz).  A detector with both theta and
\* phi: the original system is spherical, coordinate 0 is r * k at every
\* point when the detector has r and infinity at every point when not,
\* theta and phi are handed on as they are, and the origin plays no part.
\* Any other detector (also one with only one of theta and phi): the
\* original system is Cartesian and point i of the flattened detector is
\* handed on as (k (x_i - cx), k (y_i - cy), k (cz - z_i)).
C10_HandedValues ==
    (op = "_transform_to_desired_coordinates" /\ ret.ok)
        => LET d == args.detector
               k == args.wavevec
               o == args.origin
               e == log[1]
           IN /\ Len(log) = 1
              /\ e.ev = "find_transformation_function"
              /\ IF {"theta", "phi"} \subseteq DOMAIN d.coords
                 THEN /\ e.original = "spherical"
                      /\ Len(e.values[1]) = Len(d.coords.theta)
                      /\ \A i \in 1..Len(d.coords.theta) :
                            IF "r" \in DOMAIN d.coords
                            THEN e.values[1][i] = d.coords.r[i] * k
                            ELSE e.values[1][i] = Inf
                      /\ e.values[2] = d.coords.theta
                      /\ e.values[3] = d.coords.phi
                      /\ \A o2 \in Origins :
                            LET out == _transform_to_desired_coordinates(
                                           d, o2, k)
                            IN out.ok /\ out.val = ret.val /\ out.log = log
                 ELSE /\ e.original = "cartesian"
                      /\ LET f == flat(d)
                         IN /\ Len(e.values[1]) = NumPoints(f)
                            /\ Len(e.values[2]) = NumPoints(f)
                            /\ Len(e.values[3]) = NumPoints(f)
                            /\ \A i \in 1..NumPoints(f) :
                                  /\ e.values[1][i] = k * (f.coords.x[i] - o[1])
                                  /\ e.values[2][i] = k * (f.coords.y[i] - o[2])
                                  /\ e.values[3][i] = k * (o[3] - f.coords.z[i])

C10_Witness ==
    /\ op = "_transform_to_desired_coordinates"
    /\ ret.ok
    /\ hasattr(args.detector, "theta")
    /\ ~ hasattr(args.detector, "phi")
    /\ args.wavevec = 2
    /\ args.origin = <<1, 2, 3>>
    /\ Len(args.detector.coords.z) = MaxPoints
    /\ log[1].values[3][1] # log[1].values[3][2]

====
